---- MODULE Spec2Model ----
(***************************************************************************)
(* Exam practice system (Vue application): question bank import, mastery  *)
(* statistics, exam session state machine, grace timer and history.       *)
(*                                                                         *)
(* Representation.  A JavaScript string is a sequence of one-character     *)
(* TLA+ strings ("AC" is <<"A","C">>, '' is <<>>).  An array of strings is  *)
(* a sequence of such sequences.  The value bound to the answer widget is  *)
(* [kind, val] so that '' and [] stay different values.  null/undefined    *)
(* is the record NULL.  The question types '多选' / '单选' / '判断' are    *)
(* written "multi" / "single" / "boolean".  Question text and option texts *)
(* never influence a transition and are left out of the question records.  *)
(***************************************************************************)
EXTENDS Integers, Sequences, FiniteSets, TLC

\* ---------------------------------------------------------------- bounds
\* Answer records appended in one run of Spec.
MaxSubmits == 1
\* Answer records appended in one run of SpecLong.
LongSubmits == 2
\* Option labels used when checkAnswer is called on its own.
MaxLabels == 3
\* Answer records of the sessions whose score is computed on its own.
MaxAnswers == 16
\* Characters of the quoted field given to parseCSVRows on its own.
MaxFieldLen == 3
\* Data rows of the text given to parseCSVText on its own.
MaxRows == 2
\* Reads of chosen files started in one run of the import race.
MaxReads == 2

\* data(): consecutiveCorrectThreshold: 3, also restored by clearAllData.
DefaultThreshold == 3

VARIABLES
    currentPage,                  \* 'home' | 'exam' | 'overview' | 'report'
    questions,                    \* the question bank, statistics embedded
    currentExamQuestions,         \* snapshot of the running session
    currentQuestionIndex,
    userAnswer,                   \* pending input
    currentExamAnswers,           \* answer records of the running session
    lastAnswerFeedback,
    currentExamCorrect,
    currentExamIncorrect,
    examHistory,                  \* newest first
    consecutiveCorrectThreshold,
    localStorage,                 \* the four persisted entries
    timers,                       \* pending setTimeout(finishExam, 1500) callbacks, oldest
                                  \* first; each carries a tag saying which session set it
    lastDialog,                   \* alert/confirm shown by the latest event
    \* ---- history variables: read by no handler, written beside the
    \* ---- handler effect they record
    statsApplied,                 \* updateQuestionStats calls since the latest session start
    nSubmitted,                   \* answer records appended in this run
    lastStats,                    \* id -> statistics the id had when last in the bank
    incorrectFinalized,           \* id -> incorrect answer records a finalize found in the bank
    \* ---- a call of one of the utility functions on its own
    fnArgs,                       \* the function and its arguments
    fnResult,                     \* [done |-> FALSE], or the value returned
    \* ---- the promises of parseCSV / parseXLSX
    reads                         \* the reads started, in the order the files were
                                  \* chosen; `rank` is 0 while the read is pending
                                  \* and else its place in the order of completion

progVars ==
    <<currentPage, questions, currentExamQuestions, currentQuestionIndex, userAnswer,
      currentExamAnswers, lastAnswerFeedback, currentExamCorrect, currentExamIncorrect,
      examHistory, consecutiveCorrectThreshold, localStorage, timers, lastDialog>>

histVars ==
    <<statsApplied, nSubmitted, lastStats, incorrectFinalized>>

fnVars ==
    <<fnArgs, fnResult, reads>>

vars ==
    <<progVars, histVars, fnVars>>

\* ------------------------------------------------------------ values
NULL ==
    [null |-> TRUE]

EmptyString ==
    [kind |-> "string", val |-> <<>>]

EmptyArray ==
    [kind |-> "array", val |-> <<>>]

ZeroStats ==
    [consecutiveCorrect |-> 0, totalAttempts |-> 0, correctAttempts |-> 0]

Question(id, type, answer) ==
    [id |-> id, type |-> type, answer |-> answer, statistics |-> ZeroStats]

\* The records parseCSVText / parseXLSXWorksheet build from the two files used here:
\* fileB is a later edition of the bank that no longer has Q1.
FileA ==
    << Question("Q1", "single", <<"B">>), Question("Q2", "multi", <<"A", "C">>) >>

FileB ==
    << Question("Q2", "multi", <<"A", "C">>) >>

Files ==
    {"fileA", "fileB"}

\* Two more files: one whose read or parse ends in reject(error), and one with a
\* header row only, for which parseCSVText returns [].
FaultyFiles ==
    {"fileBad", "fileEmpty"}

\* The promise of parseCSV(file) is rejected.
rejected(file) ==
    file = "fileBad"

\* The array the promise of parseCSV(file) resolves with.
parseCSV(file) ==
    CASE file = "fileA" -> FileA
      [] file = "fileB" -> FileB
      [] OTHER          -> <<>>

QuestionIds ==
    {"Q1", "Q2"}

\* ------------------------------------------------------------ strings
Ord(ch) ==
    CASE ch = "A" -> 1 [] ch = "B" -> 2 [] ch = "C" -> 3 [] ch = "D" -> 4 [] OTHER -> 5

\* s < t in UTF-16 code unit order, the order of Array.prototype.sort().
RECURSIVE StrLess(_, _)
StrLess(s, t) ==
    IF t = <<>> THEN FALSE
    ELSE IF s = <<>> THEN TRUE
    ELSE IF Ord(Head(s)) # Ord(Head(t)) THEN Ord(Head(s)) < Ord(Head(t))
    ELSE StrLess(Tail(s), Tail(t))

RECURSIVE InsertSorted(_, _)
InsertSorted(x, arr) ==
    IF arr = <<>> THEN <<x>>
    ELSE IF StrLess(x, Head(arr)) THEN <<x>> \o arr
    ELSE <<Head(arr)>> \o InsertSorted(x, Tail(arr))

\* arr.sort()
RECURSIVE Sort(_)
Sort(arr) ==
    IF arr = <<>> THEN <<>> ELSE InsertSorted(Head(arr), Sort(Tail(arr)))

\* arr.join(sep)
RECURSIVE Join(_, _)
Join(arr, sep) ==
    IF arr = <<>> THEN <<>>
    ELSE IF Len(arr) = 1 THEN Head(arr)
    ELSE Head(arr) \o sep \o Join(Tail(arr), sep)

\* str.split('')
Split(str) ==
    [i \in 1..Len(str) |-> <<str[i]>>]

\* String(v)
String(v) ==
    IF v.kind = "array" THEN Join(v.val, <<",">>) ELSE v.val

\* ------------------------------------------------------------ utilities
\* checkAnswer comparing the selection as it was ticked, without sorting it.
checkAnswerUnsorted(ua, correctAnswer, questionType) ==
    IF questionType = "multi"
    THEN LET userAns    == IF ua.kind = "array" THEN Join(ua.val, <<>>) ELSE <<>>
             correctAns == Join(Sort(Split(correctAnswer)), <<>>)
         IN  userAns = correctAns
    ELSE String(ua) = correctAnswer

checkAnswer(ua, correctAnswer, questionType) ==
    IF questionType = "multi"
    THEN LET userAns    == IF ua.kind = "array" THEN Join(Sort(ua.val), <<>>) ELSE <<>>
             correctAns == Join(Sort(Split(correctAnswer)), <<>>)
         IN  userAns = correctAns
    ELSE String(ua) = correctAnswer

\* calculateAccuracy cutting the digits after the first decimal instead of rounding.
calculateAccuracyTruncating(correct, total) ==
    IF total = 0 THEN [int |-> 0, frac |-> -1]
    ELSE LET tenths == (correct * 1000) \div total
         IN  [int |-> tenths \div 10, frac |-> tenths % 10]

\* (correct / total * 100).toFixed(1) + '%', as [int, frac]; '0%' has no fraction digit.
calculateAccuracy(correct, total) ==
    IF total = 0 THEN [int |-> 0, frac |-> -1]
    ELSE LET tenths == (correct * 2000 + total) \div (2 * total)
         IN  [int |-> tenths \div 10, frac |-> tenths % 10]

\* ------------------------------------------------------------ computed
currentQuestionAt(snapshot, index) ==
    IF Len(snapshot) = 0 THEN NULL
    ELSE IF index \in 1..Len(snapshot) THEN snapshot[index]
    ELSE NULL

\* currentQuestionIndex is 0-based in the program and in the model.
currentQuestion ==
    currentQuestionAt(currentExamQuestions, currentQuestionIndex + 1)

TypeOf(q) ==
    IF q = NULL THEN "undefined" ELSE q.type

hasAnswer ==
    IF TypeOf(currentQuestion) = "multi"
    THEN userAnswer.kind = "array" /\ Len(userAnswer.val) > 0
    ELSE userAnswer # EmptyString

\* Filter with the comparison `<=` in place of `<`.
RECURSIVE FilterInclusive(_, _)
FilterInclusive(qs, threshold) ==
    IF qs = <<>> THEN <<>>
    ELSE IF Head(qs).statistics.consecutiveCorrect <= threshold
         THEN <<Head(qs)>> \o FilterInclusive(Tail(qs), threshold)
         ELSE FilterInclusive(Tail(qs), threshold)

RECURSIVE Filter(_, _)
Filter(qs, threshold) ==
    IF qs = <<>> THEN <<>>
    ELSE IF Head(qs).statistics.consecutiveCorrect < threshold
         THEN <<Head(qs)>> \o Filter(Tail(qs), threshold)
         ELSE Filter(Tail(qs), threshold)

availableQuestions ==
    Filter(questions, consecutiveCorrectThreshold)

currentExamScore ==
    [total     |-> Len(currentExamAnswers),
     correct   |-> currentExamCorrect,
     incorrect |-> currentExamIncorrect,
     accuracy  |-> calculateAccuracy(currentExamCorrect, Len(currentExamAnswers))]

\* ------------------------------------------------------------ initial state
EmptyStorage ==
    [questions |-> <<>>, questionStats |-> [id \in {} |-> ZeroStats],
     examHistory |-> <<>>, consecutiveCorrectThreshold |-> DefaultThreshold]

\* No utility function is called on its own.
NoCall ==
    [fn |-> "none"]

NotRun ==
    [done |-> FALSE]

\* The state after data() and loadSavedData() on an empty localStorage.
data ==
    /\ currentPage = "home"
    /\ questions = <<>>
    /\ currentExamQuestions = <<>>
    /\ currentQuestionIndex = 0
    /\ userAnswer = EmptyString
    /\ currentExamAnswers = <<>>
    /\ lastAnswerFeedback = NULL
    /\ currentExamCorrect = 0
    /\ currentExamIncorrect = 0
    /\ examHistory = <<>>
    /\ consecutiveCorrectThreshold = DefaultThreshold
    /\ localStorage = EmptyStorage
    /\ timers = <<>>
    /\ lastDialog = "none"
    /\ statsApplied = 0
    /\ nSubmitted = 0
    /\ lastStats = [id \in {} |-> ZeroStats]
    /\ incorrectFinalized = [id \in QuestionIds |-> 0]

Init ==
    /\ data
    /\ fnArgs = NoCall
    /\ fnResult = NotRun
    /\ reads = <<>>

\* ------------------------------------------------------------ helpers
Ids(qs) ==
    {qs[i].id : i \in 1..Len(qs)}

\* Array.prototype.find(q => q.id === id): index of the first match, 0 when none.
RECURSIVE FindFrom(_, _, _)
FindFrom(qs, id, i) ==
    IF i > Len(qs) THEN 0
    ELSE IF qs[i].id = id THEN i
    ELSE FindFrom(qs, id, i + 1)

find(qs, id) ==
    FindFrom(qs, id, 1)

\* What a snapshot element shows of the question object it refers to.
Ref(q) ==
    [id |-> q.id, type |-> q.type, answer |-> q.answer]

RECURSIVE Refs(_)
Refs(qs) ==
    IF qs = <<>> THEN <<>> ELSE <<Ref(Head(qs))>> \o Refs(Tail(qs))

\* resetAnswer without the test of the question type.
resetAnswerUntyped(q) ==
    EmptyString

\* resetAnswer that leaves the pending input as it is.
resetAnswerKeeping(q) ==
    userAnswer

\* resetAnswer() evaluated for the question q.
resetAnswer(q) ==
    IF TypeOf(q) = "multi" THEN EmptyArray ELSE EmptyString

\* examRecord built from a fresh array instead of the session's answers.
examRecordWithoutAnswers(answers, score) ==
    [answers |-> <<>>, score |-> score, shared |-> TRUE]

\* A history entry holds the session's answers array itself (shared = TRUE while
\* currentExamAnswers is still that array) and the score object computed when the
\* entry was built.  examId / startTime / endTime are clock readings and left out.
examRecord(answers, score) ==
    [answers |-> answers, score |-> score, shared |-> TRUE]

\* currentExamAnswers.push(r) seen through every entry sharing the array.
PushShared(history, answers) ==
    [i \in 1..Len(history) |->
        IF history[i].shared THEN [history[i] EXCEPT !.answers = answers] ELSE history[i]]

\* `this.currentExamAnswers.length = 0`: the array the entries hold is emptied.
UnshareTruncating(history) ==
    [i \in 1..Len(history) |->
        IF history[i].shared THEN [history[i] EXCEPT !.answers = <<>>] ELSE history[i]]

\* this.currentExamAnswers = [] : the entries keep the old array.
Unshare(history) ==
    [i \in 1..Len(history) |-> [history[i] EXCEPT !.shared = FALSE]]

\* JSON.stringify(this.examHistory)
Serialize(history) ==
    [i \in 1..Len(history) |-> [answers |-> history[i].answers, score |-> history[i].score]]

\* stats = {}; this.questions.forEach(q => { stats[q.id] = q.statistics })
RECURSIVE statsOf(_, _)
statsOf(qs, acc) ==
    IF qs = <<>> THEN acc
    ELSE statsOf(Tail(qs),
                 [id \in (DOMAIN acc) \cup {Head(qs).id} |->
                     IF id = Head(qs).id THEN Head(qs).statistics ELSE acc[id]])

NoStats ==
    [id \in {} |-> ZeroStats]

\* ------------------------------------------------------------ mastery tracker
\* applyAnswer with correctAttempts++ outside the test of isCorrect.
applyAnswerCountingAll(qs, answer) ==
    LET k == FindFrom(qs, answer.questionId, 1)
    IN  IF k = 0 THEN qs
        ELSE LET st == qs[k].statistics
             IN  [qs EXCEPT ![k].statistics =
                    [consecutiveCorrect |-> IF answer.isCorrect
                                            THEN st.consecutiveCorrect + 1 ELSE 0,
                     totalAttempts      |-> st.totalAttempts + 1,
                     correctAttempts    |-> st.correctAttempts + 1]]

\* The body of the forEach callback of updateQuestionStats for one answer record.
applyAnswer(qs, answer) ==
    LET k == find(qs, answer.questionId)
    IN  IF k = 0 THEN qs
        ELSE LET st == qs[k].statistics
                 up == IF answer.isCorrect
                       THEN [consecutiveCorrect |-> st.consecutiveCorrect + 1,
                             totalAttempts      |-> st.totalAttempts + 1,
                             correctAttempts    |-> st.correctAttempts + 1]
                       ELSE [consecutiveCorrect |-> 0,
                             totalAttempts      |-> st.totalAttempts + 1,
                             correctAttempts    |-> st.correctAttempts]
             IN  [qs EXCEPT ![k].statistics = up]

\* The bank after this.currentExamAnswers.forEach(...).
RECURSIVE updateQuestionStats(_, _)
updateQuestionStats(qs, answers) ==
    IF answers = <<>> THEN qs
    ELSE updateQuestionStats(applyAnswer(qs, Head(answers)), Tail(answers))

\* History bookkeeping for a finalize.
CountIncorrect(answers, id) ==
    Cardinality({i \in 1..Len(answers) : answers[i].questionId = id /\ ~answers[i].isCorrect})

\* ------------------------------------------------------------ finishExam
FinishVars ==
    <<questions, examHistory, localStorage, currentPage,
      statsApplied, lastStats, incorrectFinalized>>

\* this.examHistory.unshift(examRecord)
unshift(history, rec) ==
    <<rec>> \o history

\* finishBlocked without the return: the page change at the end is still made.
finishBlockedFallingThrough(dialog) ==
    /\ lastDialog' = dialog
    /\ currentPage' = "report"
    /\ UNCHANGED <<questions, examHistory, localStorage, statsApplied, lastStats,
                   incorrectFinalized>>

\* The two early returns of finishExam: a dialog and nothing else.
finishBlocked(dialog) ==
    /\ lastDialog' = dialog
    /\ UNCHANGED FinishVars

\* finishExam that takes every answer to confirm() as a refusal.
finishExamDeclined(ok) ==
    IF Len(currentExamAnswers) = 0 THEN finishBlocked("alert:notAnswered")
    ELSE finishBlocked("confirm:finish:no")

\* finishExam() with `ok` the value confirm() returns if it is asked.
finishExam(ok) ==
    IF Len(currentExamAnswers) = 0 THEN finishBlocked("alert:notAnswered")
    ELSE IF ~ok THEN finishBlocked("confirm:finish:no")
    ELSE LET bank    == updateQuestionStats(questions, currentExamAnswers)
             history == unshift(examHistory, examRecord(currentExamAnswers, currentExamScore))
         IN  /\ lastDialog' = "confirm:finish:yes"
             /\ questions' = bank
             /\ examHistory' = history
             /\ localStorage' = [localStorage EXCEPT
                                    !.questionStats = statsOf(bank, NoStats),
                                    !.questions = bank,
                                    !.examHistory = Serialize(history)]
             /\ currentPage' = "report"
             /\ statsApplied' = statsApplied + 1
             /\ lastStats' = statsOf(bank, lastStats)
             /\ incorrectFinalized' =
                    [id \in QuestionIds |->
                        IF id \in Ids(questions)
                        THEN incorrectFinalized[id] + CountIncorrect(currentExamAnswers, id)
                        ELSE incorrectFinalized[id]]

SessionVars ==
    <<currentExamQuestions, currentQuestionIndex, userAnswer, currentExamAnswers,
      lastAnswerFeedback, currentExamCorrect, currentExamIncorrect>>

\* The "finish" button of the exam page.
FinishExam ==
    /\ currentPage = "exam"
    /\ \E ok \in BOOLEAN : finishExam(ok)
    /\ UNCHANGED <<SessionVars, consecutiveCorrectThreshold, timers, nSubmitted>>
    /\ UNCHANGED fnVars

\* The callback of setTimeout(() => this.finishExam(), 1500); timers of equal delay
\* run in the order they were set.
TimerFires ==
    /\ timers # <<>>
    /\ timers' = Tail(timers)
    /\ \E ok \in BOOLEAN : finishExam(ok)
    /\ UNCHANGED <<SessionVars, consecutiveCorrectThreshold, nSubmitted>>
    /\ UNCHANGED fnVars

\* ------------------------------------------------------------ startExam
\* Timer tags: "cur" set by the running session, "old" set by a session that was
\* replaced by startExam before it was finalized, "done" set by a session that was
\* finalized or cleared.  No handler reads a tag.
Retag(ts, tag) ==
    [i \in 1..Len(ts) |-> IF ts[i] = "cur" THEN tag ELSE ts[i]]

\* startExam without the reset of the two counters.
startExamKeepingCounters ==
    IF Len(availableQuestions) = 0
    THEN /\ lastDialog' = "alert:noQuestions"
         /\ UNCHANGED <<currentPage, questions, SessionVars, examHistory,
                        consecutiveCorrectThreshold, localStorage, timers, histVars>>
    ELSE /\ currentExamQuestions' = Refs(availableQuestions)
         /\ currentQuestionIndex' = 0
         /\ currentExamAnswers' = <<>>
         /\ UNCHANGED <<currentExamCorrect, currentExamIncorrect>>
         /\ userAnswer' = resetAnswer(currentQuestionAt(Refs(availableQuestions), 1))
         /\ lastAnswerFeedback' = NULL
         /\ currentPage' = "exam"
         /\ examHistory' = Unshare(examHistory)
         /\ lastDialog' = "none"
         /\ timers' = Retag(timers, IF statsApplied = 0 THEN "old" ELSE "done")
         /\ statsApplied' = 0
         /\ UNCHANGED <<questions, consecutiveCorrectThreshold, localStorage,
                        nSubmitted, lastStats, incorrectFinalized>>

startExam ==
    IF Len(availableQuestions) = 0
    THEN /\ lastDialog' = "alert:noQuestions"
         /\ UNCHANGED <<currentPage, questions, SessionVars, examHistory,
                        consecutiveCorrectThreshold, localStorage, timers, histVars>>
    ELSE /\ currentExamQuestions' = Refs(availableQuestions)
         /\ currentQuestionIndex' = 0
         /\ currentExamAnswers' = <<>>
         /\ currentExamCorrect' = 0
         /\ currentExamIncorrect' = 0
         /\ userAnswer' = resetAnswer(currentQuestionAt(Refs(availableQuestions), 1))
         /\ lastAnswerFeedback' = NULL
         /\ currentPage' = "exam"
         /\ examHistory' = Unshare(examHistory)
         /\ lastDialog' = "none"
         /\ timers' = Retag(timers, IF statsApplied = 0 THEN "old" ELSE "done")
         /\ statsApplied' = 0
         /\ UNCHANGED <<questions, consecutiveCorrectThreshold, localStorage,
                        nSubmitted, lastStats, incorrectFinalized>>

StartExam ==
    /\ currentPage = "home"
    /\ startExam
    /\ UNCHANGED fnVars

\* ------------------------------------------------------------ answering
\* The values the option widgets of the exam page can bind to userAnswer: one label
\* for a radio group, the checked labels in the order they were ticked for checkboxes.
Choices(q) ==
    IF TypeOf(q) = "multi"
    THEN {[kind |-> "array", val |-> v] :
            v \in { <<>>, << <<"A">> >>, << <<"A">>, <<"C">> >>, << <<"C">>, <<"A">> >> }}
    ELSE {[kind |-> "string", val |-> v] : v \in { <<"A">>, <<"B">> }}

SelectOption ==
    /\ currentPage = "exam"
    /\ currentQuestion # NULL
    /\ \E v \in Choices(currentQuestion) : userAnswer' = v
    /\ lastDialog' = "none"
    /\ UNCHANGED <<currentPage, questions, currentExamQuestions, currentQuestionIndex,
                   currentExamAnswers, lastAnswerFeedback, currentExamCorrect,
                   currentExamIncorrect, examHistory, consecutiveCorrectThreshold,
                   localStorage, timers, histVars>>
    /\ UNCHANGED fnVars

\* this.userAnswer after this.userAnswer.sort(), which sorts the bound array in place.
sortedInput(q, ua) ==
    IF q.type = "multi" THEN [kind |-> "array", val |-> Sort(ua.val)] ELSE ua

\* answerRecord that joins the selection without sorting it.
answerRecordUnsorted(q, ua) ==
    [questionId    |-> q.id,
     userAnswer    |-> IF q.type = "multi" THEN Join(ua.val, <<>>) ELSE String(ua),
     correctAnswer |-> q.answer,
     isCorrect     |-> checkAnswer(ua, q.answer, q.type)]

\* The record pushed by submitAnswer.
answerRecord(q, ua) ==
    [questionId    |-> q.id,
     userAnswer    |-> IF q.type = "multi" THEN Join(Sort(ua.val), <<>>) ELSE String(ua),
     correctAnswer |-> q.answer,
     isCorrect     |-> checkAnswer(ua, q.answer, q.type)]

feedbackOf(rec, index) ==
    [questionIndex |-> index + 1,
     userAnswer    |-> rec.userAnswer,
     correctAnswer |-> rec.correctAnswer,
     isCorrect     |-> rec.isCorrect]

\* submitAnswer that takes the question list afresh from the bank.
submitAnswerRefreshing(ok, limit) ==
    IF hasAnswer /\ currentQuestion = NULL
    THEN \* this.currentQuestion.type throws a TypeError before anything is written
         /\ lastDialog' = "none"
         /\ UNCHANGED <<SessionVars, FinishVars, timers, nSubmitted>>
    ELSE LET answered == hasAnswer
             rec      == answerRecord(currentQuestion, userAnswer)
             answers  == IF answered THEN Append(currentExamAnswers, rec)
                         ELSE currentExamAnswers
             last     == ~(currentQuestionIndex < Len(currentExamQuestions) - 1)
         IN  /\ answered => nSubmitted < limit
             /\ currentExamAnswers' = answers
             /\ currentExamCorrect' =
                    IF answered /\ rec.isCorrect THEN currentExamCorrect + 1
                    ELSE currentExamCorrect
             /\ currentExamIncorrect' =
                    IF answered /\ ~rec.isCorrect THEN currentExamIncorrect + 1
                    ELSE currentExamIncorrect
             /\ lastAnswerFeedback' =
                    IF answered THEN feedbackOf(rec, currentQuestionIndex) ELSE NULL
             /\ nSubmitted' = IF answered THEN nSubmitted + 1 ELSE nSubmitted
             /\ currentExamQuestions' = Refs(availableQuestions)
             /\ IF ~last
                THEN /\ currentQuestionIndex' = currentQuestionIndex + 1
                     /\ userAnswer' = resetAnswer(currentQuestionAt(currentExamQuestions,
                                                                    currentQuestionIndex + 2))
                     /\ examHistory' = PushShared(examHistory, answers)
                     /\ lastDialog' = "none"
                     /\ UNCHANGED <<questions, localStorage, currentPage, statsApplied,
                                    lastStats, incorrectFinalized, timers>>
                ELSE IF answered
                THEN /\ timers' = Append(timers, "cur")
                     /\ userAnswer' = sortedInput(currentQuestion, userAnswer)
                     /\ examHistory' = PushShared(examHistory, answers)
                     /\ lastDialog' = "none"
                     /\ UNCHANGED <<currentQuestionIndex, questions, localStorage,
                                    currentPage, statsApplied, lastStats,
                                    incorrectFinalized>>
                ELSE /\ finishExam(ok)
                     /\ UNCHANGED <<currentQuestionIndex, userAnswer, timers>>

\* submitAnswer(); `ok` is confirm()'s reply should finishExam ask for it, `limit`
\* the number of answer records the run may append.
\* submitAnswer that finalizes at the last index without the grace timer.
submitAnswerFinishingAtOnce(ok, limit) ==
    IF hasAnswer /\ currentQuestion = NULL
    THEN \* this.currentQuestion.type throws a TypeError before anything is written
         /\ lastDialog' = "none"
         /\ UNCHANGED <<SessionVars, FinishVars, timers, nSubmitted>>
    ELSE LET answered == hasAnswer
             rec      == answerRecord(currentQuestion, userAnswer)
             answers  == IF answered THEN Append(currentExamAnswers, rec)
                         ELSE currentExamAnswers
             last     == ~(currentQuestionIndex < Len(currentExamQuestions) - 1)
         IN  /\ answered => nSubmitted < limit
             /\ currentExamAnswers' = answers
             /\ currentExamCorrect' =
                    IF answered /\ rec.isCorrect THEN currentExamCorrect + 1
                    ELSE currentExamCorrect
             /\ currentExamIncorrect' =
                    IF answered /\ ~rec.isCorrect THEN currentExamIncorrect + 1
                    ELSE currentExamIncorrect
             /\ lastAnswerFeedback' =
                    IF answered THEN feedbackOf(rec, currentQuestionIndex) ELSE NULL
             /\ nSubmitted' = IF answered THEN nSubmitted + 1 ELSE nSubmitted
             /\ UNCHANGED currentExamQuestions
             /\ IF ~last
                THEN /\ currentQuestionIndex' = currentQuestionIndex + 1
                     /\ userAnswer' = resetAnswer(currentQuestionAt(currentExamQuestions,
                                                                    currentQuestionIndex + 2))
                     /\ examHistory' = PushShared(examHistory, answers)
                     /\ lastDialog' = "none"
                     /\ UNCHANGED <<questions, localStorage, currentPage, statsApplied,
                                    lastStats, incorrectFinalized, timers>>
                ELSE /\ finishExam(ok)
                     /\ UNCHANGED <<currentQuestionIndex, userAnswer, timers>>

submitAnswer(ok, limit) ==
    IF hasAnswer /\ currentQuestion = NULL
    THEN \* this.currentQuestion.type throws a TypeError before anything is written
         /\ lastDialog' = "none"
         /\ UNCHANGED <<SessionVars, FinishVars, timers, nSubmitted>>
    ELSE LET answered == hasAnswer
             rec      == answerRecord(currentQuestion, userAnswer)
             answers  == IF answered THEN Append(currentExamAnswers, rec)
                         ELSE currentExamAnswers
             last     == ~(currentQuestionIndex < Len(currentExamQuestions) - 1)
         IN  /\ answered => nSubmitted < limit
             /\ currentExamAnswers' = answers
             /\ currentExamCorrect' =
                    IF answered /\ rec.isCorrect THEN currentExamCorrect + 1
                    ELSE currentExamCorrect
             /\ currentExamIncorrect' =
                    IF answered /\ ~rec.isCorrect THEN currentExamIncorrect + 1
                    ELSE currentExamIncorrect
             /\ lastAnswerFeedback' =
                    IF answered THEN feedbackOf(rec, currentQuestionIndex) ELSE NULL
             /\ nSubmitted' = IF answered THEN nSubmitted + 1 ELSE nSubmitted
             /\ UNCHANGED currentExamQuestions
             /\ IF ~last
                THEN /\ currentQuestionIndex' = currentQuestionIndex + 1
                     /\ userAnswer' = resetAnswer(currentQuestionAt(currentExamQuestions,
                                                                    currentQuestionIndex + 2))
                     /\ examHistory' = PushShared(examHistory, answers)
                     /\ lastDialog' = "none"
                     /\ UNCHANGED <<questions, localStorage, currentPage, statsApplied,
                                    lastStats, incorrectFinalized, timers>>
                ELSE IF answered
                THEN /\ timers' = Append(timers, "cur")
                     /\ userAnswer' = sortedInput(currentQuestion, userAnswer)
                     /\ examHistory' = PushShared(examHistory, answers)
                     /\ lastDialog' = "none"
                     /\ UNCHANGED <<currentQuestionIndex, questions, localStorage,
                                    currentPage, statsApplied, lastStats,
                                    incorrectFinalized>>
                ELSE /\ finishExam(ok)
                     /\ UNCHANGED <<currentQuestionIndex, userAnswer, timers>>

SubmitAnswer ==
    /\ currentPage = "exam"
    /\ \E ok \in BOOLEAN : submitAnswer(ok, MaxSubmits)
    /\ UNCHANGED consecutiveCorrectThreshold
    /\ UNCHANGED fnVars

SubmitAnswerLong ==
    /\ currentPage = "exam"
    /\ \E ok \in BOOLEAN : submitAnswer(ok, LongSubmits)
    /\ UNCHANGED consecutiveCorrectThreshold
    /\ UNCHANGED fnVars

\* submitAnswer() of the older copy of the session engine: it returns at once when
\* nothing is selected, and at the last index it always sets the timer.
submitAnswerOld(limit) ==
    IF ~hasAnswer \/ currentQuestion = NULL
    THEN \* `if (!this.hasAnswer) return;`, or the TypeError of currentQuestion.type
         /\ lastDialog' = "none"
         /\ UNCHANGED <<SessionVars, FinishVars, timers, nSubmitted>>
    ELSE LET rec     == answerRecord(currentQuestion, userAnswer)
             answers == Append(currentExamAnswers, rec)
         IN  /\ nSubmitted < limit
             /\ currentExamAnswers' = answers
             /\ currentExamCorrect' =
                    IF rec.isCorrect THEN currentExamCorrect + 1 ELSE currentExamCorrect
             /\ currentExamIncorrect' =
                    IF rec.isCorrect THEN currentExamIncorrect ELSE currentExamIncorrect + 1
             /\ lastAnswerFeedback' = feedbackOf(rec, currentQuestionIndex)
             /\ nSubmitted' = nSubmitted + 1
             /\ examHistory' = PushShared(examHistory, answers)
             /\ lastDialog' = "none"
             /\ UNCHANGED <<currentExamQuestions, questions, localStorage, currentPage,
                            statsApplied, lastStats, incorrectFinalized>>
             /\ IF currentQuestionIndex < Len(currentExamQuestions) - 1
                THEN /\ currentQuestionIndex' = currentQuestionIndex + 1
                     /\ userAnswer' = resetAnswer(currentQuestionAt(currentExamQuestions,
                                                                    currentQuestionIndex + 2))
                     /\ UNCHANGED timers
                ELSE /\ timers' = Append(timers, "cur")
                     /\ userAnswer' = sortedInput(currentQuestion, userAnswer)
                     /\ UNCHANGED currentQuestionIndex

SubmitAnswerOld ==
    /\ currentPage = "exam"
    /\ submitAnswerOld(MaxSubmits)
    /\ UNCHANGED consecutiveCorrectThreshold
    /\ UNCHANGED fnVars

\* submitAnswer called again, with the selection still in place, once the session has
\* been finalized and its report is shown: the handler does not look at the page.
SubmitAfterFinish ==
    /\ currentPage = "report"
    /\ hasAnswer
    /\ \E ok \in BOOLEAN : submitAnswer(ok, LongSubmits)
    /\ UNCHANGED consecutiveCorrectThreshold
    /\ UNCHANGED fnVars

\* ------------------------------------------------------------ navigation
NavFrame ==
    <<questions, currentExamQuestions, currentExamAnswers, currentExamCorrect,
      currentExamIncorrect, examHistory, consecutiveCorrectThreshold, localStorage,
      timers, histVars>>

\* previousQuestion without the assignment to lastAnswerFeedback.
previousQuestionKeepingFeedback ==
    IF currentQuestionIndex > 0
    THEN /\ currentQuestionIndex' = currentQuestionIndex - 1
         /\ userAnswer' = resetAnswer(currentQuestionAt(currentExamQuestions,
                                                        currentQuestionIndex))
         /\ UNCHANGED lastAnswerFeedback
    ELSE UNCHANGED <<currentQuestionIndex, userAnswer, lastAnswerFeedback>>

previousQuestion ==
    IF currentQuestionIndex > 0
    THEN /\ currentQuestionIndex' = currentQuestionIndex - 1
         /\ userAnswer' = resetAnswer(currentQuestionAt(currentExamQuestions,
                                                        currentQuestionIndex))
         /\ lastAnswerFeedback' = NULL
    ELSE UNCHANGED <<currentQuestionIndex, userAnswer, lastAnswerFeedback>>

PreviousQuestion ==
    /\ currentPage = "exam"
    /\ previousQuestion
    /\ lastDialog' = "none"
    /\ UNCHANGED <<currentPage, NavFrame>>
    /\ UNCHANGED fnVars

jumpToQuestion(index) ==
    /\ currentQuestionIndex' = index
    /\ userAnswer' = resetAnswer(currentQuestionAt(currentExamQuestions, index + 1))
    /\ lastAnswerFeedback' = NULL
    /\ currentPage' = "exam"

\* The overview grid calls jumpToQuestion with the index of one of its cells.
JumpToQuestion ==
    /\ currentPage = "overview"
    /\ \E index \in 0..(Len(currentExamQuestions) - 1) : jumpToQuestion(index)
    /\ lastDialog' = "none"
    /\ UNCHANGED NavFrame
    /\ UNCHANGED fnVars

\* jumpToQuestion called with the index just below or just above the session range.
JumpOutside ==
    /\ currentPage = "overview"
    /\ \E index \in {-1, Len(currentExamQuestions)} : jumpToQuestion(index)
    /\ lastDialog' = "none"
    /\ UNCHANGED NavFrame
    /\ UNCHANGED fnVars

\* getQuestionStatus(index), called by the overview grid for each cell.
getQuestionStatus(index) ==
    IF index + 1 \in 1..Len(currentExamAnswers)
    THEN IF currentExamAnswers[index + 1].isCorrect THEN "correct" ELSE "incorrect"
    ELSE "unanswered"

PageFrame ==
    <<questions, SessionVars, examHistory, consecutiveCorrectThreshold, localStorage,
      timers, histVars>>

showOverview ==
    currentPage' = "overview"

ShowOverview ==
    /\ currentPage = "exam"
    /\ showOverview
    /\ lastDialog' = "none"
    /\ UNCHANGED PageFrame
    /\ UNCHANGED fnVars

backToExam ==
    currentPage' = "exam"

BackToExam ==
    /\ currentPage = "overview"
    /\ backToExam
    /\ lastDialog' = "none"
    /\ UNCHANGED PageFrame
    /\ UNCHANGED fnVars

backToHome ==
    currentPage' = "home"

BackToHome ==
    /\ currentPage \in {"exam", "overview", "report"}
    /\ backToHome
    /\ lastDialog' = "none"
    /\ UNCHANGED PageFrame
    /\ UNCHANGED fnVars

\* ------------------------------------------------------------ settings and data
\* Values typed into the threshold field.
Thresholds ==
    {1, DefaultThreshold}

\* The threshold field of the home page and the watcher that persists it.
SetThreshold ==
    /\ currentPage = "home"
    /\ \E n \in Thresholds :
        /\ consecutiveCorrectThreshold' = n
        /\ localStorage' = [localStorage EXCEPT !.consecutiveCorrectThreshold = n]
    /\ lastDialog' = "none"
    /\ UNCHANGED <<currentPage, questions, SessionVars, examHistory, timers, histVars>>
    /\ UNCHANGED fnVars

clearAllData(ok) ==
    IF ~ok
    THEN /\ lastDialog' = "confirm:clear:no"
         /\ UNCHANGED <<questions, examHistory, consecutiveCorrectThreshold,
                        currentExamQuestions, currentExamAnswers, currentQuestionIndex,
                        currentExamCorrect, currentExamIncorrect, lastAnswerFeedback,
                        localStorage, timers, statsApplied, lastStats,
                        incorrectFinalized>>
    ELSE /\ localStorage' = EmptyStorage
         /\ questions' = <<>>
         /\ examHistory' = <<>>
         /\ consecutiveCorrectThreshold' = DefaultThreshold
         /\ currentExamQuestions' = <<>>
         /\ currentExamAnswers' = <<>>
         /\ currentQuestionIndex' = 0
         /\ currentExamCorrect' = 0
         /\ currentExamIncorrect' = 0
         /\ lastAnswerFeedback' = NULL
         /\ lastDialog' = "alert:cleared"
         /\ timers' = Retag(timers, "done")
         /\ statsApplied' = 0
         /\ lastStats' = NoStats
         /\ incorrectFinalized' = [id \in QuestionIds |-> 0]

ClearAllData ==
    /\ currentPage = "home"
    /\ \E ok \in BOOLEAN : clearAllData(ok)
    /\ UNCHANGED <<currentPage, userAnswer, nSubmitted>>
    /\ UNCHANGED fnVars

\* ------------------------------------------------------------ import
\* questions.forEach(q => { if (savedStats[q.id]) q.statistics = savedStats[q.id] })
carryOver(parsed, savedStats) ==
    [i \in 1..Len(parsed) |->
        IF parsed[i].id \in DOMAIN savedStats
        THEN [parsed[i] EXCEPT !.statistics = savedStats[parsed[i].id]]
        ELSE parsed[i]]

\* handleFileSelect with `this.questions = []` ahead of the await.
handleFileSelectClearingFirst(file) ==
    IF rejected(file)
    THEN /\ lastDialog' = "alert:importFailed"
         /\ questions' = <<>>
         /\ UNCHANGED <<localStorage, lastStats>>
    ELSE LET imported == carryOver(parseCSV(file), localStorage.questionStats)
         IN  /\ questions' = imported
             /\ localStorage' = [localStorage EXCEPT !.questions = imported]
             /\ lastStats' = statsOf(imported, lastStats)
             /\ lastDialog' = "alert:imported"

\* handleFileSelect that adds the imported records to the bank it finds.
handleFileSelectAppending(file) ==
    IF rejected(file)
    THEN /\ lastDialog' = "alert:importFailed"
         /\ UNCHANGED <<questions, localStorage, lastStats>>
    ELSE LET imported == carryOver(parseCSV(file), localStorage.questionStats)
             bank     == questions \o imported
         IN  /\ questions' = bank
             /\ localStorage' = [localStorage EXCEPT !.questions = bank]
             /\ lastStats' = statsOf(bank, lastStats)
             /\ lastDialog' = "alert:imported"

\* handleFileSelect / handleXLSXFileSelect from the point where `await parseCSV(file)`
\* has delivered the records of `file`.
handleFileSelect(file) ==
    IF rejected(file)
    THEN \* catch (error) { alert(...) }
         /\ lastDialog' = "alert:importFailed"
         /\ UNCHANGED <<questions, localStorage, lastStats>>
    ELSE LET imported == carryOver(parseCSV(file), localStorage.questionStats)
         IN  /\ questions' = imported
             /\ localStorage' = [localStorage EXCEPT !.questions = imported]
             /\ lastStats' = statsOf(imported, lastStats)
             /\ lastDialog' = "alert:imported"

\* The read of a file chosen on the home page completes.  Choosing the file writes
\* nothing, and the read may complete on any page, so the two are taken as one step.
ImportCompletes ==
    /\ \E file \in Files : handleFileSelect(file)
    /\ UNCHANGED <<currentPage, SessionVars, examHistory, consecutiveCorrectThreshold,
                   timers, statsApplied, nSubmitted, incorrectFinalized>>
    /\ UNCHANGED fnVars

\* The import of a file that cannot be read or parsed ends.
ImportFails ==
    /\ handleFileSelect("fileBad")
    /\ UNCHANGED <<currentPage, SessionVars, examHistory, consecutiveCorrectThreshold,
                   timers, statsApplied, nSubmitted, incorrectFinalized>>
    /\ UNCHANGED fnVars

\* The import of a file without question rows completes.
ImportEmpty ==
    /\ handleFileSelect("fileEmpty")
    /\ UNCHANGED <<currentPage, SessionVars, examHistory, consecutiveCorrectThreshold,
                   timers, statsApplied, nSubmitted, incorrectFinalized>>
    /\ UNCHANGED fnVars

\* ------------------------------------------------------------ session states
\* The states of the session engine as the pages show them.
Idle ==
    currentPage = "home"

InProgress ==
    currentPage \in {"exam", "overview"}

Finished ==
    currentPage = "report"

\* A step in which finishExam ran: each of its three paths shows a dialog.
FinishExamRan ==
    lastDialog' \in {"alert:notAnswered", "confirm:finish:no", "confirm:finish:yes"}

\* A step in which finishExam got past both guards.
Finalized ==
    lastDialog' = "confirm:finish:yes"

\* ------------------------------------------------------------ specification
\* Every event but the answer submission.
Others ==
    \/ ImportCompletes
    \/ SetThreshold
    \/ ClearAllData
    \/ StartExam
    \/ SelectOption
    \/ PreviousQuestion
    \/ ShowOverview
    \/ BackToExam
    \/ JumpToQuestion
    \/ FinishExam
    \/ TimerFires
    \/ BackToHome

Next ==
    \/ SubmitAnswer
    \/ Others

Spec ==
    Init /\ [][Next]_vars

\* The same program in runs that may record one answer more.
NextLong ==
    \/ SubmitAnswerLong
    \/ Others

SpecLong ==
    Init /\ [][NextLong]_vars

\* ------------------------------------------------------------ the delimited parser
\* Texts are sequences of characters.  str.trim() for the white space used here.
WhiteSpace ==
    {" ", "\n"}

RECURSIVE trimStart(_)
trimStart(str) ==
    IF str # <<>> /\ Head(str) \in WhiteSpace THEN trimStart(Tail(str)) ELSE str

RECURSIVE trimEnd(_)
trimEnd(str) ==
    IF str # <<>> /\ str[Len(str)] \in WhiteSpace
    THEN trimEnd(SubSeq(str, 1, Len(str) - 1))
    ELSE str

trim(str) ==
    trimEnd(trimStart(str))

\* text.split('\n'): `acc` is the line being read.
RECURSIVE splitLines(_, _)
splitLines(text, acc) ==
    IF text = <<>> THEN <<acc>>
    ELSE IF Head(text) = "\n" THEN <<acc>> \o splitLines(Tail(text), <<>>)
    ELSE splitLines(Tail(text), Append(acc, Head(text)))

\* One turn of the inner loop of parseCSVRows: the character at index i
\* (1-based) of the line; st holds currentRow, currentField and inQuotes, and
\* `step` is how far the index moves.
scanCharToggling(line, i, st) ==
    IF line[i] = "\""
    THEN [st |-> [st EXCEPT !.inQuotes = ~st.inQuotes], step |-> 1]
    ELSE IF line[i] = "," /\ ~st.inQuotes
    THEN [st   |-> [st EXCEPT !.currentRow = Append(st.currentRow, trim(st.currentField)),
                              !.currentField = <<>>],
          step |-> 1]
    ELSE [st |-> [st EXCEPT !.currentField = Append(st.currentField, line[i])],
          step |-> 1]

scanChar(line, i, st) ==
    IF line[i] = "\""
    THEN IF st.inQuotes /\ i + 1 <= Len(line) /\ line[i + 1] = "\""
         THEN [st   |-> [st EXCEPT !.currentField = Append(st.currentField, "\"")],
               step |-> 2]
         ELSE [st |-> [st EXCEPT !.inQuotes = ~st.inQuotes], step |-> 1]
    ELSE IF line[i] = "," /\ ~st.inQuotes
    THEN [st   |-> [st EXCEPT !.currentRow = Append(st.currentRow, trim(st.currentField)),
                              !.currentField = <<>>],
          step |-> 1]
    ELSE [st |-> [st EXCEPT !.currentField = Append(st.currentField, line[i])],
          step |-> 1]

\* The inner loop of parseCSVRows over one line, from index i on.
RECURSIVE scanLine(_, _, _)
scanLine(line, i, st) ==
    IF i > Len(line) THEN st
    ELSE LET turn == scanChar(line, i, st)
         IN  scanLine(line, i + turn.step, turn.st)

\* currentRow.some(field => field.length > 0)
someField(row) ==
    \E k \in 1..Len(row) : Len(row[k]) > 0

\* The outer loop of parseCSVRows from line k on, and the handling of a last
\* unfinished row.
RECURSIVE scanLines(_, _, _, _)
scanLines(lines, k, rows, st) ==
    IF k > Len(lines)
    THEN IF Len(st.currentRow) > 0 \/ Len(st.currentField) > 0
         THEN LET row == Append(st.currentRow, trim(st.currentField))
              IN  IF someField(row) THEN Append(rows, row) ELSE rows
         ELSE rows
    ELSE LET after == scanLine(lines[k], 1, st)
         IN  IF after.inQuotes
             THEN scanLines(lines, k + 1, rows,
                            [after EXCEPT !.currentField = Append(after.currentField, "\n")])
             ELSE LET row == Append(after.currentRow, trim(after.currentField))
                  IN  scanLines(lines, k + 1,
                                IF someField(row) THEN Append(rows, row) ELSE rows,
                                [currentRow |-> <<>>, currentField |-> <<>>,
                                 inQuotes |-> FALSE])

parseCSVRows(text) ==
    scanLines(splitLines(text, <<>>), 1, <<>>,
              [currentRow |-> <<>>, currentField |-> <<>>, inQuotes |-> FALSE])

\* str.replace(/\n+/g, ' ')
RECURSIVE collapseNewlines(_)
collapseNewlines(str) ==
    IF str = <<>> THEN <<>>
    ELSE IF Head(str) = "\n"
    THEN IF Len(str) > 1 /\ str[2] = "\n" THEN collapseNewlines(Tail(str))
         ELSE <<" ">> \o collapseNewlines(Tail(str))
    ELSE <<Head(str)>> \o collapseNewlines(Tail(str))

\* The option map of one row: the fixed pair for the boolean type, else the
\* columns whose trimmed text is not empty.  cells is <<optA, ..., optE>>.
OptionLabels ==
    <<"A", "B", "C", "D", "E">>

optionsOf(type, cells) ==
    IF trim(type) = <<"boolean">>
    THEN [label \in {"A", "B"} |-> IF label = "A" THEN <<"right">> ELSE <<"wrong">>]
    ELSE LET present == {k \in 1..5 : trim(cells[k]) # <<>>}
         IN  [label \in {OptionLabels[k] : k \in present} |->
                 collapseNewlines(trim(cells[(CHOOSE k \in present :
                                                 OptionLabels[k] = label)]))]

questionObj(fields) ==
    [id         |-> trim(fields[1]),
     type       |-> trim(fields[2]),
     question   |-> collapseNewlines(trim(fields[3])),
     options    |-> optionsOf(fields[2], SubSeq(fields, 4, 8)),
     answer     |-> trim(fields[9]),
     statistics |-> [consecutiveCorrect |-> 0, totalAttempts |-> 0,
                     correctAttempts |-> 0]]

\* The loop of parseCSVText from row i on (1-based; the loop starts after the
\* header row).
RECURSIVE questionsFrom(_, _)
questionsFrom(rows, i) ==
    IF i > Len(rows) THEN <<>>
    ELSE IF Len(rows[i]) < 9 THEN questionsFrom(rows, i + 1)
    ELSE <<questionObj(rows[i])>> \o questionsFrom(rows, i + 1)

parseCSVText(text) ==
    questionsFrom(parseCSVRows(text), 2)

\* ------------------------------------------------------------ failing localStorage writes
\* saveToLocalStorage(key, value) on the storage `store`; for the keys in `failed`
\* setItem throws, the catch logs the error and nothing is written.
saveToLocalStorage(store, key, value, failed) ==
    IF key \in failed THEN store ELSE [store EXCEPT ![key] = value]

\* finishExam() past both guards, with the writes of the keys in `failed` failing.
finishExamSaving(failed) ==
    LET bank    == updateQuestionStats(questions, currentExamAnswers)
        history == unshift(examHistory, examRecord(currentExamAnswers, currentExamScore))
        stats   == saveToLocalStorage(localStorage, "questionStats",
                                      statsOf(bank, NoStats), failed)
        banked  == saveToLocalStorage(stats, "questions", bank, failed)
    IN  /\ Len(currentExamAnswers) > 0
        /\ lastDialog' = "confirm:finish:yes"
        /\ questions' = bank
        /\ examHistory' = history
        /\ localStorage' = saveToLocalStorage(banked, "examHistory",
                                              Serialize(history), failed)
        /\ currentPage' = "report"
        /\ statsApplied' = statsApplied + 1
        /\ lastStats' = statsOf(bank, lastStats)
        /\ incorrectFinalized' =
               [id \in QuestionIds |->
                   IF id \in Ids(questions)
                   THEN incorrectFinalized[id] + CountIncorrect(currentExamAnswers, id)
                   ELSE incorrectFinalized[id]]

\* The finish button, confirmed, while some write to localStorage fails.
FinishExamSaveFails ==
    /\ currentPage = "exam"
    /\ \E failed \in (SUBSET {"questionStats", "questions", "examHistory"}) \ {{}} :
            finishExamSaving(failed)
    /\ UNCHANGED <<SessionVars, consecutiveCorrectThreshold, timers, nSubmitted>>
    /\ UNCHANGED fnVars

\* An import completes while the write of 'questions' fails.
ImportSaveFails ==
    /\ \E file \in Files :
        LET imported == carryOver(parseCSV(file), localStorage.questionStats)
        IN  /\ questions' = imported
            /\ localStorage' = saveToLocalStorage(localStorage, "questions", imported,
                                                  {"questions"})
            /\ lastStats' = statsOf(imported, lastStats)
            /\ lastDialog' = "alert:imported"
    /\ UNCHANGED <<currentPage, SessionVars, examHistory, consecutiveCorrectThreshold,
                   timers, statsApplied, nSubmitted, incorrectFinalized>>
    /\ UNCHANGED fnVars

\* The threshold is changed while the watcher's write fails.
SetThresholdSaveFails ==
    /\ currentPage = "home"
    /\ \E n \in Thresholds :
        /\ consecutiveCorrectThreshold' = n
        /\ localStorage' = saveToLocalStorage(localStorage, "consecutiveCorrectThreshold",
                                              n, {"consecutiveCorrectThreshold"})
    /\ lastDialog' = "none"
    /\ UNCHANGED <<currentPage, questions, SessionVars, examHistory, timers, histVars>>
    /\ UNCHANGED fnVars

\* The program with localStorage writes that may fail.
NextQuota ==
    \/ FinishExamSaveFails
    \/ ImportSaveFails
    \/ SetThresholdSaveFails
    \/ Next

SpecQuota ==
    Init /\ [][NextQuota]_vars

\* ------------------------------------------------------------ currentExamScore on its own
ScoreInputs ==
    {a \in [fn : {"currentExamScore"}, correct : 0..MaxAnswers, total : 0..MaxAnswers] :
        a.correct <= a.total}

\* The record submitAnswer pushes for the first question of fileA.
recordOfQ1(isCorrect) ==
    answerRecord(Ref(FileA[1]),
                 [kind |-> "string", val |-> IF isCorrect THEN <<"B">> ELSE <<"A">>])

\* A session on the bank of fileA that has recorded fnArgs.total answers, the first
\* fnArgs.correct of them correct.
InitScore ==
    /\ fnArgs \in ScoreInputs
    /\ fnResult = NotRun
    /\ reads = <<>>
    /\ currentPage = "exam"
    /\ questions = FileA
    /\ currentExamQuestions = Refs(FileA)
    /\ currentQuestionIndex = 0
    /\ userAnswer = EmptyString
    /\ currentExamAnswers = [i \in 1..fnArgs.total |-> recordOfQ1(i <= fnArgs.correct)]
    /\ lastAnswerFeedback = NULL
    /\ currentExamCorrect = fnArgs.correct
    /\ currentExamIncorrect = fnArgs.total - fnArgs.correct
    /\ examHistory = <<>>
    /\ consecutiveCorrectThreshold = DefaultThreshold
    /\ localStorage = [EmptyStorage EXCEPT !.questions = FileA]
    /\ timers = <<>>
    /\ lastDialog = "none"
    /\ statsApplied = 0
    /\ nSubmitted = fnArgs.total
    /\ lastStats = statsOf(FileA, NoStats)
    /\ incorrectFinalized = [id \in QuestionIds |-> 0]

\* The report and the exam page read currentExamScore.
CallCurrentExamScore ==
    /\ fnArgs.fn = "currentExamScore"
    /\ ~fnResult.done
    /\ fnResult' = [done |-> TRUE, value |-> currentExamScore]
    /\ UNCHANGED <<progVars, histVars, fnArgs, reads>>

NextScore ==
    CallCurrentExamScore

SpecScore ==
    InitScore /\ [][NextScore]_vars

\* ------------------------------------------------------------ checkAnswer on its own
\* The option labels: the first MaxLabels of the columns A..E.
Labels ==
    {<<(<<"A", "B", "C", "D", "E">>)[i]>> : i \in 1..MaxLabels}

\* The sequences over S without a repeated element.
DuplicateFree(S) ==
    {q \in UNION {[1..k -> S] : k \in 0..Cardinality(S)} :
        \A i, j \in 1..Len(q) : q[i] = q[j] => i = j}

\* Checkbox selections: labels in the order they were ticked.
Selections ==
    {[kind |-> "array", val |-> q] : q \in DuplicateFree(Labels)}

\* Answer keys of multi-choice questions: a set of labels written as a string, in
\* whatever order the file has them.
AnswerKeys ==
    {Join(q, <<>>) : q \in DuplicateFree(Labels) \ {<<>>}}

CheckInputs ==
    {[fn |-> "checkAnswer", type |-> "multi", ua |-> u, correct |-> c] :
        u \in Selections, c \in AnswerKeys}
    \cup
    {[fn |-> "checkAnswer", type |-> t, ua |-> [kind |-> "string", val |-> v],
      correct |-> c] :
        t \in {"single", "boolean"}, v \in Labels \cup {<<>>}, c \in Labels}

InitCheck ==
    /\ data
    /\ fnArgs \in CheckInputs
    /\ fnResult = NotRun
    /\ reads = <<>>

CallCheckAnswer ==
    /\ fnArgs.fn = "checkAnswer"
    /\ ~fnResult.done
    /\ fnResult' = [done  |-> TRUE,
                    value |-> checkAnswer(fnArgs.ua, fnArgs.correct, fnArgs.type)]
    /\ UNCHANGED <<progVars, histVars, fnArgs, reads>>

NextCheck ==
    CallCheckAnswer

SpecCheck ==
    InitCheck /\ [][NextCheck]_vars

\* parseCSVRows on its own: a line whose first field is quoted and holds any
\* short text over letters, commas, quotes and newlines, followed by a plain
\* field and by a second line.
FieldChars ==
    {"a", ",", "\"", "\n"}

ExampleField ==
    <<"a", ",", "b", "\n", "c">>

FieldTexts ==
    UNION {[1..n -> FieldChars] : n \in 0..MaxFieldLen} \cup {ExampleField}

\* The field as it is written between quotes: every quote doubled.
RECURSIVE doubled(_)
doubled(str) ==
    IF str = <<>> THEN <<>>
    ELSE (IF Head(str) = "\"" THEN <<"\"", "\"">> ELSE <<Head(str)>>)
         \o doubled(Tail(str))

quoted(str) ==
    <<"\"">> \o doubled(str) \o <<"\"">>

quotedText(field) ==
    quoted(field) \o <<",", "z", "\n", "y">>

RowsInputs ==
    {[fn |-> "parseCSVRows", field |-> f] : f \in FieldTexts}

InitRows ==
    /\ data
    /\ fnArgs \in RowsInputs
    /\ fnResult = NotRun
    /\ reads = <<>>

CallParseCSVRows ==
    /\ fnArgs.fn = "parseCSVRows"
    /\ ~fnResult.done
    /\ fnResult' = [done  |-> TRUE,
                    value |-> parseCSVRows(quotedText(fnArgs.field))]
    /\ UNCHANGED <<progVars, histVars, fnArgs, reads>>

NextRows ==
    CallParseCSVRows

SpecRows ==
    InitRows /\ [][NextRows]_vars

\* parseCSVText on its own: a header line and up to MaxRows data lines, each
\* either short (8 fields), long (10 fields) or of 9 fields with any type, any
\* filling of the first two option cells and any answer over A and B.
joinWith(fields, sep) ==
    LET RECURSIVE from(_)
        from(k) == IF k > Len(fields) THEN <<>>
                   ELSE IF k = Len(fields) THEN fields[k]
                   ELSE fields[k] \o <<sep>> \o from(k + 1)
    IN  from(1)

HeaderRow ==
    <<<<"id">>, <<"type">>, <<"question">>, <<"A">>, <<"B">>, <<"C">>, <<"D">>,
      <<"E">>, <<"answer">>>>

ShortRow ==
    <<<<"7">>, <<"single">>, <<"q">>, <<"x">>, <<"y">>, <<>>, <<>>, <<"A">>>>

LongRow ==
    <<<<"8">>, <<"single">>, <<"q">>, <<"x">>, <<"y">>, <<>>, <<>>, <<>>, <<"A">>,
      <<"note">>>>

DataRows ==
    {ShortRow, LongRow}
    \cup
    {<<<<"1">>, t, <<"q">>, a, b, <<>>, <<>>, <<>>, ans>> :
        t \in {<<"single">>, <<"multi">>, <<"boolean">>},
        a \in {<<>>, <<"x">>}, b \in {<<>>, <<" ">>, <<"y">>},
        ans \in {<<"A">>, <<"B">>, <<"A", "B">>}}

TextInputs ==
    {[fn |-> "parseCSVText", rows |-> r] :
        r \in UNION {[1..n -> DataRows] : n \in 0..MaxRows}}

textOf(rows) ==
    joinWith([k \in 1..(Len(rows) + 1) |->
                 joinWith(IF k = 1 THEN HeaderRow ELSE rows[k - 1], ",")], "\n")

InitText ==
    /\ data
    /\ fnArgs \in TextInputs
    /\ fnResult = NotRun
    /\ reads = <<>>

CallParseCSVText ==
    /\ fnArgs.fn = "parseCSVText"
    /\ ~fnResult.done
    /\ fnResult' = [done  |-> TRUE,
                    value |-> parseCSVText(textOf(fnArgs.rows))]
    /\ UNCHANGED <<progVars, histVars, fnArgs, reads>>

NextText ==
    CallParseCSVText

SpecText ==
    InitText /\ [][NextText]_vars

\* ------------------------------------------------------------ two imports in flight
\* The page is loaded on what an earlier run left in localStorage: nothing, the
\* bank of fileA alone, or the bank, statistics and history after one session on
\* fileA that answered question k rightly or wrongly.
answerTo(q, right) ==
    IF q.type = "multi"
    THEN [kind |-> "array", val |-> IF right THEN Split(q.answer) ELSE << <<"A">> >>]
    ELSE [kind |-> "string", val |-> IF right THEN q.answer ELSE <<"A">>]

storageAfterSession(k, right) ==
    LET rec   == answerRecord(FileA[k], answerTo(FileA[k], right))
        bank  == updateQuestionStats(FileA, <<rec>>)
        score == [total     |-> 1,
                  correct   |-> IF rec.isCorrect THEN 1 ELSE 0,
                  incorrect |-> IF rec.isCorrect THEN 0 ELSE 1,
                  accuracy  |-> calculateAccuracy(IF rec.isCorrect THEN 1 ELSE 0, 1)]
    IN  [questions     |-> bank,
         questionStats |-> statsOf(bank, NoStats),
         examHistory   |-> Serialize(<<examRecord(<<rec>>, score)>>),
         consecutiveCorrectThreshold |-> DefaultThreshold]

SavedStorages ==
    {EmptyStorage, [EmptyStorage EXCEPT !.questions = FileA]}
    \cup {storageAfterSession(k, right) : k \in 1..Len(FileA), right \in BOOLEAN}

\* data() followed by loadSavedData(): the bank and the history are read back.
InitRace ==
    /\ localStorage \in SavedStorages
    /\ questions = localStorage.questions
    /\ examHistory = [i \in 1..Len(localStorage.examHistory) |->
                         [answers |-> localStorage.examHistory[i].answers,
                          score   |-> localStorage.examHistory[i].score,
                          shared  |-> FALSE]]
    /\ consecutiveCorrectThreshold = localStorage.consecutiveCorrectThreshold
    /\ currentPage = "home"
    /\ currentExamQuestions = <<>>
    /\ currentQuestionIndex = 0
    /\ userAnswer = EmptyString
    /\ currentExamAnswers = <<>>
    /\ lastAnswerFeedback = NULL
    /\ currentExamCorrect = 0
    /\ currentExamIncorrect = 0
    /\ timers = <<>>
    /\ lastDialog = "none"
    /\ statsApplied = 0
    /\ nSubmitted = 0
    /\ lastStats = statsOf(questions, NoStats)
    /\ incorrectFinalized = [id \in QuestionIds |-> 0]
    /\ fnArgs = NoCall
    /\ fnResult = NotRun
    /\ reads = <<>>

\* A file is chosen: handleFileSelect runs up to `await parseCSV(file)`, which
\* starts the read; no guard looks at a read already pending.
SelectFile ==
    /\ currentPage = "home"
    /\ Len(reads) < MaxReads
    /\ \E file \in Files : reads' = Append(reads, [file |-> file, rank |-> 0])
    /\ lastDialog' = "none"
    /\ UNCHANGED <<currentPage, questions, SessionVars, examHistory,
                   consecutiveCorrectThreshold, localStorage, timers, histVars>>
    /\ UNCHANGED <<fnArgs, fnResult>>

Completed ==
    {i \in 1..Len(reads) : reads[i].rank > 0}

\* One of the pending reads completes, in any order: the rest of handleFileSelect
\* runs from the await to its end without giving way to another callback.
ReadCompletes ==
    /\ \E i \in 1..Len(reads) :
          /\ reads[i].rank = 0
          /\ reads' = [reads EXCEPT ![i].rank = Cardinality(Completed) + 1]
          /\ handleFileSelect(reads[i].file)
    /\ UNCHANGED <<currentPage, SessionVars, examHistory, consecutiveCorrectThreshold,
                   timers, statsApplied, nSubmitted, incorrectFinalized>>
    /\ UNCHANGED <<fnArgs, fnResult>>

NextRace ==
    \/ SelectFile
    \/ ReadCompletes

SpecRace ==
    InitRace /\ [][NextRace]_vars

\* ------------------------------------------------------------ the grace timer left alone
\* The program with a user who does nothing while a grace timer is pending and
\* answers every confirm() of a timer with yes.  The browser runs the callback
\* of a timer that is due, hence the fairness on it.
TimerFiresConfirmed ==
    /\ timers # <<>>
    /\ timers' = Tail(timers)
    /\ finishExam(TRUE)
    /\ UNCHANGED <<SessionVars, consecutiveCorrectThreshold, nSubmitted>>
    /\ UNCHANGED fnVars

\* No grace timer is pending.
Quiet ==
    timers = <<>>

NextLive ==
    \/ Quiet /\ ImportCompletes
    \/ Quiet /\ SetThreshold
    \/ Quiet /\ ClearAllData
    \/ Quiet /\ StartExam
    \/ Quiet /\ SelectOption
    \/ Quiet /\ SubmitAnswer
    \/ Quiet /\ PreviousQuestion
    \/ Quiet /\ ShowOverview
    \/ Quiet /\ BackToExam
    \/ Quiet /\ JumpToQuestion
    \/ Quiet /\ FinishExam
    \/ Quiet /\ BackToHome
    \/ TimerFiresConfirmed

SpecLive ==
    Init /\ [][NextLive]_vars /\ WF_vars(TimerFiresConfirmed)

\* The program with jumpToQuestion called on any index.
NextJump ==
    \/ JumpOutside
    \/ Next

SpecJump ==
    Init /\ [][NextJump]_vars

\* The program with submitAnswer also called after the finalize of the session.
NextCalls ==
    \/ SubmitAfterFinish
    \/ NextLong

SpecCalls ==
    Init /\ [][NextCalls]_vars

\* The older copy of the application: the same handlers but for submitAnswer.
NextOld ==
    \/ SubmitAnswerOld
    \/ Others

SpecOld ==
    Init /\ [][NextOld]_vars

\* The program with an unreadable file among the files the user may choose.
NextFail ==
    \/ ImportFails
    \/ Next

SpecFail ==
    Init /\ [][NextFail]_vars

\* The program with a file without question rows among the files.
NextEmpty ==
    \/ ImportEmpty
    \/ Next

SpecEmpty ==
    Init /\ [][NextEmpty]_vars

\* ------------------------------------------------------------ what a finalize must do
Bad(recs) ==
    {i \in 1..Len(recs) : ~recs[i].isCorrect}

Last(S) ==
    CHOOSE m \in S : \A n \in S : n <= m

\* The statistics st after the records recs of one question, stated without the loop.
ExpectedStats(st, recs) ==
    [consecutiveCorrect |-> IF Bad(recs) = {} THEN st.consecutiveCorrect + Len(recs)
                            ELSE Len(recs) - Last(Bad(recs)),
     totalAttempts      |-> st.totalAttempts + Len(recs),
     correctAttempts    |-> st.correctAttempts + Len(recs) - Cardinality(Bad(recs))]

RecordsOf(answers, id) ==
    SelectSeq(answers, LAMBDA r : r.questionId = id)

\* `after` is the bank `before` with the records of `answers` counted per question.
StatsUpdated(before, after, answers) ==
    /\ Len(after) = Len(before)
    /\ \A j \in 1..Len(before) :
        after[j] = [before[j] EXCEPT !.statistics =
                        ExpectedStats(before[j].statistics,
                                      RecordsOf(answers, before[j].id))]

\* History entries built from the answers array of the running session.
SessionEntries ==
    {i \in 1..Len(examHistory) : examHistory[i].shared}

\* ------------------------------------------------------------ claims
\* C1: within one session (from a successful startExam to the next startExam or
\* clearAllData) updateQuestionStats is applied at most once and at most one history
\* entry is created, whatever the order of submitAnswer, navigation, finishExam and
\* grace timer firings.
C1_OneFinalizePerSession ==
    /\ statsApplied <= 1
    /\ Cardinality(SessionEntries) <= 1

\* C2: finishExam, called directly or by the grace timer, changes question
\* statistics, examHistory and the page only while the session is InProgress; on
\* the home page (Idle) or the report page (Finished) it changes none of them.
C2_FinishOnlyInProgress ==
    [][(FinishExamRan /\ (Idle \/ Finished))
        => UNCHANGED <<questions, examHistory, currentPage>>]_vars

C4_BlockedChangesNothing ==
    [][((StartExam /\ Len(availableQuestions) = 0)
        \/ ((FinishExam \/ TimerFires)
            /\ lastDialog' \in {"alert:notAnswered", "confirm:finish:no"}))
        => UNCHANGED <<questions, examHistory, currentExamQuestions, currentQuestionIndex,
                       currentExamAnswers, currentExamCorrect, currentExamIncorrect,
                       lastAnswerFeedback, currentPage>>]_vars

\* finishExam was called on the exam page of a session with an answer and its
\* feedback showing, and the confirmation was declined.
C4_Witness ==
    /\ lastDialog = "confirm:finish:no"
    /\ currentPage = "exam"
    /\ Len(currentExamAnswers) > 0
    /\ lastAnswerFeedback # NULL

\* C5: a successful startExam leaves the snapshot equal to the eligible questions in
\* bank order, pointer 0, no answers, both counters 0, no feedback, the empty input of
\* the first question's type, and the exam page.
C5_StartExamEffect ==
    [][(StartExam /\ Len(availableQuestions) > 0)
        => LET eligible == SelectSeq(questions,
                               LAMBDA q : q.statistics.consecutiveCorrect
                                            < consecutiveCorrectThreshold)
           IN  /\ currentExamQuestions' = [i \in 1..Len(eligible) |-> Ref(eligible[i])]
               /\ currentQuestionIndex' = 0
               /\ currentExamAnswers' = <<>>
               /\ currentExamCorrect' = 0
               /\ currentExamIncorrect' = 0
               /\ lastAnswerFeedback' = NULL
               /\ userAnswer' = IF eligible[1].type = "multi" THEN EmptyArray
                                ELSE EmptyString
               /\ currentPage' = "exam"]_vars

\* A fresh session whose snapshot is shorter than the bank and starts with a
\* multi-choice question.
C5_Witness ==
    /\ currentPage = "exam"
    /\ lastDialog = "none"
    /\ currentExamAnswers = <<>>
    /\ currentQuestionIndex = 0
    /\ Len(currentExamQuestions) = 1
    /\ Len(questions) = 2
    /\ currentExamQuestions[1].type = "multi"
    /\ userAnswer = EmptyArray

\* C6: after startExam replaced an unfinished session, a grace timer set by that
\* session never changes statistics, history, or the answers, pointer and page of the
\* new session.
C6_OldTimerHarmless ==
    [][(TimerFires /\ Head(timers) = "old")
        => UNCHANGED <<questions, examHistory, currentExamAnswers, currentQuestionIndex,
                       currentPage>>]_vars

\* Positions of the bank whose streak is below the threshold.
EligiblePositions ==
    {j \in 1..Len(questions) :
        questions[j].statistics.consecutiveCorrect < consecutiveCorrectThreshold}

\* Position in the bank of the i-th available question (ids are unique in a bank).
BankPosition(i) ==
    CHOOSE j \in 1..Len(questions) : questions[j].id = availableQuestions[i].id

\* C7: in every reachable state availableQuestions is exactly the questions of the
\* bank with consecutiveCorrect < consecutiveCorrectThreshold, in bank order; so the
\* snapshot of a startExam leaves out every question whose streak has reached the
\* threshold and holds every question whose streak is below it.
C7_Eligibility ==
    /\ [](/\ Len(availableQuestions) = Cardinality(EligiblePositions)
          /\ \A i \in 1..Len(availableQuestions) :
                /\ BankPosition(i) \in EligiblePositions
                /\ availableQuestions[i] = questions[BankPosition(i)]
          /\ \A i, k \in 1..Len(availableQuestions) :
                i < k => BankPosition(i) < BankPosition(k))
    /\ [][(StartExam /\ EligiblePositions # {})
            => {currentExamQuestions'[i].id : i \in 1..Len(currentExamQuestions')}
                 = {questions[j].id : j \in EligiblePositions}]_vars

\* A session was started while one question of the bank had reached the threshold:
\* the other one alone is in the snapshot.
C7_Witness ==
    /\ currentPage = "exam"
    /\ Len(questions) = 2
    /\ Cardinality(EligiblePositions) = 1
    /\ Len(currentExamQuestions) = 1
    /\ \E j \in EligiblePositions : questions[j].id = currentExamQuestions[1].id
    /\ currentExamAnswers = <<>>

C9_StreakStep ==
    [][Finalized
        => \A j \in 1..Len(questions) :
            LET recs == RecordsOf(currentExamAnswers, questions[j].id)
                was  == questions[j].statistics.consecutiveCorrect
                now  == questions'[j].statistics.consecutiveCorrect
            IN  /\ (recs # <<>> /\ Bad(recs) = {}) => now = was + 1
                /\ (recs # <<>> /\ Cardinality(Bad(recs)) = Len(recs)) => now = 0]_vars

\* C10: for every question id, over sessions, finalizes and imports, totalAttempts and
\* correctAttempts never decrease and totalAttempts equals correctAttempts plus the
\* number of incorrect answer records finalized for the question.
C10_AttemptsMonotone ==
    [][\A j \in 1..Len(questions') :
        LET id == questions'[j].id
            st == questions'[j].statistics
        IN  /\ id \in DOMAIN lastStats =>
                /\ st.totalAttempts >= lastStats[id].totalAttempts
                /\ st.correctAttempts >= lastStats[id].correctAttempts
            /\ st.totalAttempts = st.correctAttempts + incorrectFinalized'[id]]_vars

\* C11: on every import each incoming record whose id was in an earlier bank gets the
\* statistics that id last had, and every other record starts at 0/0/0, whatever
\* imports and finalized sessions came before.
C11_CarryOver ==
    [][ImportCompletes
        => \A j \in 1..Len(questions') :
            questions'[j].statistics =
                IF questions'[j].id \in DOMAIN lastStats
                THEN lastStats[questions'[j].id]
                ELSE ZeroStats]_vars

\* C12: when the read or the parse of the chosen file fails the import is aborted as a
\* whole: the bank in memory, the persisted bank and all statistics stay as they were.
C12_FailedImportAborts ==
    [][ImportFails => UNCHANGED <<questions, localStorage>>]_vars

\* A failed import has ended while the bank held a question with counted attempts.
C12_Witness ==
    /\ lastDialog = "alert:importFailed"
    /\ Len(questions) = 2
    /\ \E j \in 1..Len(questions) : questions[j].statistics.totalAttempts > 0
    /\ localStorage.questions = questions

\* C13: an import that yields zero question records is an ingestion error: the bank in
\* memory and the persisted bank stay as they were.
C13_EmptyImportRejected ==
    [][ImportEmpty => UNCHANGED <<questions, localStorage>>]_vars

\* The selection sel in the form an answer record holds it: for a multi-choice
\* question its labels in ascending order written one after the other, otherwise the
\* selected string itself.
Normalized(type, sel, text) ==
    IF type = "multi"
    THEN /\ Len(text) = Len(sel.val)
         /\ \A l \in {sel.val[i] : i \in 1..Len(sel.val)} :
                Cardinality({i \in 1..Len(text) : <<text[i]>> = l})
                    = Cardinality({i \in 1..Len(sel.val) : sel.val[i] = l})
         /\ \A i \in 1..(Len(text) - 1) : Ord(text[i]) <= Ord(text[i + 1])
    ELSE text = sel.val

\* C14: submitAnswer with a non-empty selection in an InProgress session appends
\* exactly one record holding the id of the question at the pointer, the normalized
\* selection, that question's answer and the checkAnswer result; increments exactly
\* the counter matching isCorrect; and sets lastAnswerFeedback to the same answer,
\* correct answer and flag with questionIndex = old pointer + 1.
C14_SubmitRecords ==
    [][(SubmitAnswer /\ InProgress /\ hasAnswer)
        => LET q   == currentExamQuestions[currentQuestionIndex + 1]
               n   == Len(currentExamAnswers)
               rec == currentExamAnswers'[n + 1]
           IN  /\ Len(currentExamAnswers') = n + 1
               /\ SubSeq(currentExamAnswers', 1, n) = currentExamAnswers
               /\ rec.questionId = q.id
               /\ Normalized(q.type, userAnswer, rec.userAnswer)
               /\ rec.correctAnswer = q.answer
               /\ rec.isCorrect = checkAnswer(userAnswer, q.answer, q.type)
               /\ currentExamCorrect' = currentExamCorrect + (IF rec.isCorrect THEN 1 ELSE 0)
               /\ currentExamIncorrect' = currentExamIncorrect + (IF rec.isCorrect THEN 0 ELSE 1)
               /\ lastAnswerFeedback' = [questionIndex |-> currentQuestionIndex + 1,
                                         userAnswer    |-> rec.userAnswer,
                                         correctAnswer |-> q.answer,
                                         isCorrect     |-> rec.isCorrect]]_vars

\* The two-label selection of the multi-choice question at index 1 has been recorded
\* as "AC" and is shown as the feedback of question 2.
C14_Witness ==
    /\ currentPage = "exam"
    /\ lastDialog = "none"
    /\ Len(currentExamAnswers) = 1
    /\ currentExamAnswers[1].userAnswer = <<"A", "C">>
    /\ currentExamAnswers[1].isCorrect
    /\ currentExamCorrect = 1
    /\ currentExamIncorrect = 0
    /\ lastAnswerFeedback # NULL
    /\ lastAnswerFeedback.questionIndex = 2
    /\ timers # <<>>

\* C15: in both copies of the session engine submitAnswer with an empty or absent
\* selection is a skip: it appends no answer record, changes neither counter and
\* leaves lastAnswerFeedback null, clearing the feedback of an earlier question.
C15_SkipClearsFeedback ==
    [][((SubmitAnswer \/ SubmitAnswerOld) /\ ~hasAnswer)
        => /\ currentExamAnswers' = currentExamAnswers
           /\ currentExamCorrect' = currentExamCorrect
           /\ currentExamIncorrect' = currentExamIncorrect
           /\ lastAnswerFeedback' = NULL]_vars

\* The labels of a selection and of an answer key.
TickedLabels(u) ==
    {u.val[i] : i \in 1..Len(u.val)}

KeyLabels(c) ==
    {<<c[i]>> : i \in 1..Len(c)}

\* C16: for a multi-choice question checkAnswer returns true exactly when the
\* duplicate-free selection holds the same labels as the answer key, and returns the
\* same for every permutation of the selection; for single-choice and boolean
\* questions it returns true exactly when the selected string equals the answer key.
C16_CheckAnswer ==
    (fnArgs.fn = "checkAnswer" /\ fnResult.done)
        => IF fnArgs.type = "multi"
           THEN /\ fnResult.value = (TickedLabels(fnArgs.ua) = KeyLabels(fnArgs.correct))
                /\ \A u \in Selections :
                      TickedLabels(u) = TickedLabels(fnArgs.ua)
                        => checkAnswer(u, fnArgs.correct, "multi") = fnResult.value
           ELSE fnResult.value = (fnArgs.ua.val = fnArgs.correct)

\* checkAnswer has accepted the selection [C, A] against the key "AC".
C16_Witness ==
    /\ fnArgs.fn = "checkAnswer"
    /\ fnResult.done
    /\ fnArgs.type = "multi"
    /\ fnArgs.ua.val = << <<"C">>, <<"A">> >>
    /\ fnArgs.correct = <<"A", "C">>
    /\ fnResult.value

\* C17: between a successful startExam and the next startExam or clearAllData the
\* snapshot currentExamQuestions keeps its question ids and its length: submitAnswer,
\* previousQuestion, jumpToQuestion, finishExam, backToHome, a change of the threshold
\* and an import that replaces the bank leave it as it is.
C17_SnapshotFrozen ==
    [][~(StartExam \/ ClearAllData)
        => /\ Len(currentExamQuestions') = Len(currentExamQuestions)
           /\ \A i \in 1..Len(currentExamQuestions) :
                currentExamQuestions'[i].id = currentExamQuestions[i].id]_vars

\* An import has replaced the bank in the middle of a session, after an answer: the
\* snapshot still has the two questions of the earlier bank.
C17_Witness ==
    /\ currentPage = "exam"
    /\ lastDialog = "alert:imported"
    /\ Len(currentExamAnswers) = 1
    /\ Len(currentExamQuestions) = 2
    /\ Len(questions) = 1
    /\ currentExamQuestions[1].id \notin Ids(questions)

\* C18: whenever the snapshot is not empty the pointer is within it,
\* 0 <= currentQuestionIndex < length, through any startExam, submitAnswer,
\* previousQuestion and jumpToQuestion(index) with any integer index: a jump outside
\* the session range is blocked and changes no state.
C18_PointerInRange ==
    [][/\ Len(currentExamQuestions') > 0
            => currentQuestionIndex' \in 0..(Len(currentExamQuestions') - 1)
       /\ JumpOutside
            => UNCHANGED <<currentQuestionIndex, userAnswer, lastAnswerFeedback,
                           currentPage>>]_vars

\* C19: examHistory is append-only and newest first: but for clearAllData, no step
\* changes the answers or the score of an existing entry, removes or reorders
\* entries, or adds an entry anywhere but at index 0; further submitAnswer calls of
\* the session that produced an entry do not change the entry either.
C19_HistoryAppendOnly ==
    [][~ClearAllData
        => LET old == Serialize(examHistory)
               new == Serialize(examHistory')
           IN  \/ new = old
               \/ /\ Len(new) = Len(old) + 1
                  /\ SubSeq(new, 2, Len(new)) = old]_vars

C21_Score ==
    (fnArgs.fn = "currentExamScore" /\ fnResult.done)
        => LET score  == fnResult.value
               total  == Len(currentExamAnswers)
               tenths == 10 * score.accuracy.int + score.accuracy.frac
           IN  /\ score.total = total
               /\ score.correct = currentExamCorrect
               /\ score.incorrect = currentExamIncorrect
               /\ total = 0 => score.accuracy = [int |-> 0, frac |-> -1]
               /\ total > 0 =>
                    /\ score.accuracy.frac \in 0..9
                    /\ 2 * (tenths * total - 1000 * currentExamCorrect) <= total
                    /\ 2 * (1000 * currentExamCorrect - tenths * total) <= total
               /\ (total = 3 /\ currentExamCorrect = 1)
                    => score.accuracy = [int |-> 33, frac |-> 3]
               /\ (total = 3 /\ currentExamCorrect = 2)
                    => score.accuracy = [int |-> 66, frac |-> 7]

\* The score of a session with two correct answers out of three has been computed.
C21_Witness ==
    /\ fnArgs.fn = "currentExamScore"
    /\ fnResult.done
    /\ Len(currentExamAnswers) = 3
    /\ currentExamCorrect = 2
    /\ currentExamIncorrect = 1
    /\ fnResult.value.accuracy = [int |-> 66, frac |-> 7]

\* The statistics the bank in memory holds for the question id.
StatsInMemory(id) ==
    questions[find(questions, id)].statistics

\* C22: when a write to localStorage fails during an import, a finalize or a change of
\* the threshold, the transition in memory still completes (bank replaced, statistics
\* updated, history entry added, report shown, threshold set), nothing is written again
\* later, and the statistics in memory are what later operations work with: the next
\* finalize and the carry-over of an import of the same ids.
C22_MemoryAuthoritative ==
    [][/\ FinishExamSaveFails
            => /\ StatsUpdated(questions, questions', currentExamAnswers)
               /\ Len(examHistory') = Len(examHistory) + 1
               /\ currentPage' = "report"
       /\ ImportSaveFails
            => /\ Len(questions') > 0
               /\ localStorage'.questions = localStorage.questions
       /\ SetThresholdSaveFails
            => localStorage'.consecutiveCorrectThreshold
                    = localStorage.consecutiveCorrectThreshold
       /\ (ImportCompletes \/ ImportSaveFails)
            => \A j \in 1..Len(questions') :
                    questions'[j].id \in Ids(questions)
                        => questions'[j].statistics = StatsInMemory(questions'[j].id)]_vars

\* C23: for every index i of the snapshot, in every reachable state of a session,
\* getQuestionStatus(i) is 'unanswered' exactly when no answer record exists for the
\* question at snapshot index i, and otherwise 'correct' or 'incorrect' as the flag of
\* an answer record of that question says.
C23_StatusPerQuestion ==
    \A i \in 0..(Len(currentExamQuestions) - 1) :
        LET recs == RecordsOf(currentExamAnswers, currentExamQuestions[i + 1].id)
        IN  /\ (getQuestionStatus(i) = "unanswered") <=> (recs = <<>>)
            /\ getQuestionStatus(i) = "correct"
                    => \E n \in 1..Len(recs) : recs[n].isCorrect
            /\ getQuestionStatus(i) = "incorrect"
                    => \E n \in 1..Len(recs) : ~recs[n].isCorrect

\* C24: for a text of a header line and data lines, parseCSVText returns one
\* record per data line of at least 9 fields, in line order, skipping the header
\* and the shorter lines; every record has a non-empty option map and every
\* label of its answer is a key of that map.
FullRows(rows) ==
    SelectSeq(rows, LAMBDA r : Len(r) >= 9)

C24_ParsedRecords ==
    (fnArgs.fn = "parseCSVText" /\ fnResult.done) =>
        LET full == FullRows(fnArgs.rows)
            qs   == fnResult.value
        IN  /\ Len(qs) = Len(full)
            /\ \A k \in 1..Len(qs) :
                   /\ qs[k].id = full[k][1]
                   /\ DOMAIN qs[k].options # {}
                   /\ \A j \in 1..Len(qs[k].answer) :
                          qs[k].answer[j] \in DOMAIN qs[k].options

\* C25 as stated: the quoted field is read as one field of its row, the line
\* break after the row still ends the row, and the field's value is the text
\* between the quotes with every comma, newline and quote of it kept.
C25_QuotedFieldKept ==
    (fnArgs.fn = "parseCSVRows" /\ fnResult.done) =>
        fnResult.value = <<<<fnArgs.field, <<"z">>>>, <<<<"y">>>>>>

\* C25: the quoted field is read as one field of its row and the line break
\* after the row still ends the row; the field's value is the text between the
\* quotes, trimmed: commas, doubled quotes (as one quote) and newlines between
\* its first and last visible character are kept, newlines at either end are
\* trimmed away with the other white space.  As prompt or option text the
\* field "a,b<newline>c" reads "a,b c".
C25_QuotedFieldTrimmed ==
    (fnArgs.fn = "parseCSVRows" /\ fnResult.done) =>
        /\ fnResult.value = <<<<trim(fnArgs.field), <<"z">>>>, <<<<"y">>>>>>
        /\ fnArgs.field = ExampleField =>
               collapseNewlines(trim(fnResult.value[1][1]))
                   = <<"a", ",", "b", " ", "c">>

C25_Witness ==
    /\ fnArgs.fn = "parseCSVRows"
    /\ fnResult.done
    /\ fnArgs.field = <<",", "\n", "\"">>
    /\ fnResult.value[1][1] = <<",", "\n", "\"">>

\* C26: submitAnswer at the last index of the snapshot.  If the call appended an
\* answer record, finishExam does not run in it: the call sets one grace timer
\* and leaves the session on the exam page with the feedback of that answer, and
\* finishExam runs when the timer fires.  If nothing was recorded, finishExam
\* runs in the call itself and no timer is set.
AtLastIndex ==
    ~(currentQuestionIndex < Len(currentExamQuestions) - 1)

C26_LastIndex ==
    [][/\ (SubmitAnswer /\ AtLastIndex /\ hasAnswer)
          => /\ Len(currentExamAnswers') = Len(currentExamAnswers) + 1
             /\ ~FinishExamRan
             /\ timers' = Append(timers, "cur")
             /\ currentPage' = "exam"
             /\ lastAnswerFeedback' # NULL
             /\ lastAnswerFeedback'.questionIndex = currentQuestionIndex + 1
             /\ UNCHANGED <<questions, localStorage, currentQuestionIndex>>
       /\ (SubmitAnswer /\ AtLastIndex /\ ~hasAnswer)
          => /\ currentExamAnswers' = currentExamAnswers
             /\ FinishExamRan
             /\ timers' = timers
       /\ TimerFires
          => /\ FinishExamRan
             /\ Len(timers') = Len(timers) - 1]_vars

\* The answer to the last question has been recorded and its timer is pending:
\* the session is still on the exam page and shows the feedback.
C26_Witness ==
    /\ currentPage = "exam"
    /\ lastDialog = "none"
    /\ Len(currentExamQuestions) = 2
    /\ currentQuestionIndex = 1
    /\ Len(currentExamAnswers) = 1
    /\ currentExamAnswers[1].questionId = currentExamQuestions[2].id
    /\ timers = <<"cur">>
    /\ lastAnswerFeedback # NULL
    /\ lastAnswerFeedback.questionIndex = 2
    /\ examHistory = <<>>

\* C27: submitAnswer at an index that is not the last, with or without a
\* selection, raises the pointer by exactly 1 and sets the pending input to the
\* empty form of the type of the question now current; if the call recorded an
\* answer, its feedback is still set after the advance.
EmptyForm(q) ==
    IF q.type = "multi" THEN [kind |-> "array", val |-> <<>>]
    ELSE [kind |-> "string", val |-> <<>>]

C27_Advance ==
    [][(SubmitAnswer /\ ~AtLastIndex)
        => /\ currentQuestionIndex' = currentQuestionIndex + 1
           /\ userAnswer' = EmptyForm(currentExamQuestions[currentQuestionIndex + 2])
           /\ ~FinishExamRan
           /\ timers' = timers
           /\ hasAnswer
              => /\ lastAnswerFeedback' # NULL
                 /\ lastAnswerFeedback'.questionIndex = currentQuestionIndex + 1
                 /\ lastAnswerFeedback'.isCorrect
                        = currentExamAnswers'[Len(currentExamAnswers')].isCorrect]_vars

\* Question 1 has been answered and the session stands at question 2, a
\* multi-choice question, with the empty selection and the feedback of question 1.
C27_Witness ==
    /\ currentPage = "exam"
    /\ Len(currentExamQuestions) = 2
    /\ currentQuestionIndex = 1
    /\ currentExamQuestions[2].type = "multi"
    /\ userAnswer = [kind |-> "array", val |-> <<>>]
    /\ Len(currentExamAnswers) = 1
    /\ currentExamAnswers[1].questionId = currentExamQuestions[1].id
    /\ lastAnswerFeedback # NULL
    /\ lastAnswerFeedback.questionIndex = 1
    /\ timers = <<>>

\* C28: previousQuestion with pointer > 0 lowers the pointer by exactly 1 and
\* jumpToQuestion(i) with i in range sets it to i; both set the pending input to
\* the empty form of the target question's type and lastAnswerFeedback to null,
\* and leave the answer records and both counters as they are.  previousQuestion
\* with pointer 0 changes nothing of the program's state.
ProgramState ==
    <<currentPage, questions, currentExamQuestions, currentQuestionIndex, userAnswer,
      currentExamAnswers, lastAnswerFeedback, currentExamCorrect, currentExamIncorrect,
      examHistory, consecutiveCorrectThreshold, localStorage, timers>>

C28_Navigation ==
    [][/\ (PreviousQuestion /\ currentQuestionIndex > 0)
          => /\ currentQuestionIndex' = currentQuestionIndex - 1
             /\ userAnswer' = EmptyForm(currentExamQuestions[currentQuestionIndex])
             /\ lastAnswerFeedback' = NULL
             /\ UNCHANGED <<currentExamAnswers, currentExamCorrect, currentExamIncorrect>>
       /\ (PreviousQuestion /\ currentQuestionIndex = 0)
          => UNCHANGED ProgramState
       /\ \A i \in 0..(Len(currentExamQuestions) - 1) :
             (currentPage = "overview" /\ jumpToQuestion(i) /\ UNCHANGED NavFrame)
                => /\ currentQuestionIndex' = i
                   /\ userAnswer' = EmptyForm(currentExamQuestions[i + 1])
                   /\ lastAnswerFeedback' = NULL
                   /\ UNCHANGED <<currentExamAnswers, currentExamCorrect,
                                   currentExamIncorrect>>]_vars

\* The session has gone back to question 1, which it had answered: the record
\* is kept, the input is empty and no feedback is shown.
C28_Witness ==
    /\ currentPage = "exam"
    /\ currentQuestionIndex = 0
    /\ Len(currentExamAnswers) = 1
    /\ currentExamAnswers[1].questionId = currentExamQuestions[1].id
    /\ currentExamCorrect + currentExamIncorrect = 1
    /\ lastAnswerFeedback = NULL
    /\ userAnswer = EmptyForm(currentExamQuestions[1])
    /\ timers = <<>>

\* C29: in every reachable state the two counters add up to the number of answer
\* records of the session, currentExamCorrect is the number of records with
\* isCorrect true and currentExamIncorrect the number with isCorrect false.
CountWhere(answers, flag) ==
    Cardinality({k \in 1..Len(answers) : answers[k].isCorrect = flag})

C29_CountersMatchRecords ==
    /\ currentExamCorrect + currentExamIncorrect = Len(currentExamAnswers)
    /\ currentExamCorrect = CountWhere(currentExamAnswers, TRUE)
    /\ currentExamIncorrect = CountWhere(currentExamAnswers, FALSE)

\* A second session is running after a first one recorded a wrong answer.
C29_Witness ==
    /\ currentPage = "exam"
    /\ Len(examHistory) = 1
    /\ examHistory[1].score.incorrect = 1
    /\ currentExamAnswers = <<>>
    /\ currentExamIncorrect = 0
    /\ currentExamCorrect = 0

\* C30: in every reachable state no question id occurs in more than one answer
\* record of the session, so the number of records, which is the total of the
\* score, is at most the number of questions of the snapshot.
C30_OneRecordPerQuestion ==
    /\ \A j, k \in 1..Len(currentExamAnswers) :
           currentExamAnswers[j].questionId = currentExamAnswers[k].questionId => j = k
    /\ InProgress =>
           /\ Len(currentExamAnswers) <= Len(currentExamQuestions)
           /\ currentExamScore.total <= Len(currentExamQuestions)

\* C31: with two reads in flight, after every completion the bank in memory and
\* the persisted 'questions' entry are the whole record list of the file whose
\* read completed last, each record with the statistics saved for its id (zero
\* if none): in every order of the completions, never rows of two files.
LastCompleted ==
    CHOOSE i \in Completed : \A j \in Completed : reads[j].rank <= reads[i].rank

WholeImport(bank, file) ==
    LET parsed == parseCSV(file)
        saved  == localStorage.questionStats
    IN  /\ Len(bank) = Len(parsed)
        /\ \A k \in 1..Len(parsed) :
               /\ bank[k].id = parsed[k].id
               /\ bank[k].type = parsed[k].type
               /\ bank[k].answer = parsed[k].answer
               /\ bank[k].statistics = IF parsed[k].id \in DOMAIN saved
                                       THEN saved[parsed[k].id] ELSE ZeroStats

C31_LastCompletedWins ==
    Completed # {} =>
        /\ WholeImport(questions, reads[LastCompleted].file)
        /\ WholeImport(localStorage.questions, reads[LastCompleted].file)

\* fileB was chosen while the read of fileA was pending and completed first;
\* fileA completed last and is the bank, with the statistics saved for Q1.
C31_Witness ==
    /\ reads = <<[file |-> "fileA", rank |-> 2], [file |-> "fileB", rank |-> 1]>>
    /\ Len(questions) = 2
    /\ questions[1].id = "Q1"
    /\ questions[1].statistics.totalAttempts = 1
    /\ localStorage.questions = questions

\* C32: if every confirm() is answered with yes and the user does nothing else,
\* then whenever submitAnswer has recorded an answer at the last index of a
\* session in progress, the grace timer eventually fires and the session is
\* finished: the report page is shown, the newest history entry holds the
\* session's answers and score, and the statistics have been applied once.
LastAnswerRecorded ==
    /\ currentPage = "exam"
    /\ currentExamQuestions # <<>>
    /\ currentQuestionIndex = Len(currentExamQuestions) - 1
    /\ currentExamAnswers # <<>>
    /\ lastAnswerFeedback # NULL
    /\ lastAnswerFeedback.questionIndex = Len(currentExamQuestions)

SessionFinished ==
    /\ currentPage = "report"
    /\ timers = <<>>
    /\ examHistory # <<>>
    /\ examHistory[1].answers = currentExamAnswers
    /\ examHistory[1].score = currentExamScore
    /\ statsApplied = 1

C32_GraceTimerFinishes ==
    LastAnswerRecorded ~> SessionFinished

\* The answer to the last question is recorded and its timer is pending.
C32_Witness ==
    /\ LastAnswerRecorded
    /\ timers = <<"cur">>
    /\ statsApplied = 0
    /\ examHistory = <<>>


====
